---------------------------- MODULE Spec2Model ----------------------------
(***************************************************************************)
(* A model of the command-line todo tracker of src/main.cpp: the Task      *)
(* record and its one-line text form, TodoStorage (load-all / rewrite-all  *)
(* on a flat text file) and TodoManager (add / complete / remove / list).  *)
(*                                                                         *)
(* A std::string is a sequence of one-character strings, the backing file  *)
(* is a sequence of characters (or missing), and every conversion of the   *)
(* source (std::to_string, std::stoi, std::getline, toFileString,          *)
(* fromFileString) is computed character by character.                     *)
(***************************************************************************)
EXTENDS Integers, Sequences, FiniteSets, TLC

VARIABLES
    file,       \* todos.txt: [exists |-> BOOLEAN, content |-> characters]
    writable,   \* whether std::ofstream can open todos.txt for writing
    clock,      \* seconds elapsed on the wall clock read by std::time
    pc,         \* per process: "off" (no TodoCLI constructed) or "run"
    nops,       \* per process: handler calls made on the current TodoManager
    tasks,      \* per process: TodoManager::tasks
    last,       \* per process: the last handler's command, argument, outcome
    stale,      \* per process: todos.txt was rewritten by another process
                \*   after this process loaded it
    line,       \* codec check: the line under test
    task,       \* codec check: the task under test, as a 0/1-element sequence
    back,       \* codec check: the result of converting back (a line or a task)
    phase       \* codec check: which conversions have been applied

vars == <<file, writable, clock, pc, nops, tasks, last, stale, line, task, back, phase>>

---------------------------------------------------------------------------
(* Bounds of the model *)

MaxTasks == 2
MaxClock == 1
MaxOps == 2
MaxFields == 5
MaxLines == 2

---------------------------------------------------------------------------
(* Characters and strings *)

Digits == <<"0", "1", "2", "3", "4", "5", "6", "7", "8", "9">>

IsDigit(c) == \E i \in 1..10 : Digits[i] = c

DigitVal(c) == (CHOOSE i \in 1..10 : Digits[i] = c) - 1

\* The characters std::isspace accepts in the "C" locale (std::stoi skips
\* them); the vertical tab, which no string of the model holds, is left out.
IsSpace(c) == c \in {" ", "\t", "\n", "\r", "\f"}

\* The set TodoManager::trimString strips: " \t\n\r".
TrimSet == {" ", "\t", "\n", "\r"}

\* INT_MAX of a 32-bit int; INT_MIN is -IntMax - 1.
IntMax == 2147483647

\* std::to_string(int): decimal digits, '-' in front of a negative value.
RECURSIVE NatToString(_)
NatToString(n) ==
    IF n < 10 THEN <<Digits[n + 1]>>
    ELSE NatToString(n \div 10) \o <<Digits[(n % 10) + 1]>>

to_string(n) == IF n < 0 THEN <<"-">> \o NatToString(-n) ELSE NatToString(n)

\* Number of leading characters of s that satisfy IsSpace.
RECURSIVE LeadingSpaces(_)
LeadingSpaces(s) ==
    IF s # <<>> /\ IsSpace(Head(s)) THEN 1 + LeadingSpaces(Tail(s)) ELSE 0

\* Number of leading decimal digits of s.
RECURSIVE LeadingDigits(_)
LeadingDigits(s) ==
    IF s # <<>> /\ IsDigit(Head(s)) THEN 1 + LeadingDigits(Tail(s)) ELSE 0

\* Value of a string of decimal digits (0 for the empty string), negated
\* when neg; accumulated with the sign so that INT_MIN is computed in range.
RECURSIVE DigitsValue(_, _)
DigitsValue(s, neg) ==
    IF s = <<>> THEN 0
    ELSE LET high == 10 * DigitsValue(SubSeq(s, 1, Len(s) - 1), neg)
             low == DigitVal(s[Len(s)])
         IN  IF neg THEN high - low ELSE high + low

\* s without its leading "0" characters.
RECURSIVE DropZeros(_)
DropZeros(s) == IF s # <<>> /\ Head(s) = "0" THEN DropZeros(Tail(s)) ELSE s

\* Whether the digit string ds, negated when neg, is the value of an int.
FitsInt(ds, neg) ==
    LET sig == DropZeros(ds)
    IN  \/ Len(sig) < 10
        \/ /\ Len(sig) = 10
           /\ LET high == DigitsValue(SubSeq(sig, 1, 9), FALSE)
                  low == DigitVal(sig[10])
              IN  \/ high < IntMax \div 10
                  \/ high = IntMax \div 10
                     /\ low <= (IntMax % 10) + (IF neg THEN 1 ELSE 0)

\* std::stoi(str): skips leading white space, reads an optional sign and the
\* longest run of digits, ignores what follows; throws std::invalid_argument
\* when no digit is there and std::out_of_range when the value is no int.
\* ok = FALSE stands for either exception.
stoi(s) ==
    LET body == SubSeq(s, LeadingSpaces(s) + 1, Len(s))
        signed == body # <<>> /\ Head(body) \in {"-", "+"}
        neg == signed /\ Head(body) = "-"
        rest == IF signed THEN Tail(body) ELSE body
        n == LeadingDigits(rest)
        ds == SubSeq(rest, 1, n)
    IN  IF n = 0 \/ ~FitsInt(ds, neg)
        THEN [ok |-> FALSE, val |-> 0]
        ELSE [ok |-> TRUE,
              val |-> DigitsValue(ds, neg)]

\* Index of the first occurrence of character d in s, 0 when there is none.
RECURSIVE IndexOf(_, _)
IndexOf(s, d) ==
    IF s = <<>> THEN 0
    ELSE IF Head(s) = d THEN 1
    ELSE LET r == IndexOf(Tail(s), d) IN IF r = 0 THEN 0 ELSE r + 1

\* while (std::getline(stream, token, d)) parts.push_back(token): the tokens
\* between delimiters; the stream fails, and the loop ends, when nothing is
\* left, so an empty token after the last delimiter is never produced.
RECURSIVE getline(_, _)
getline(s, d) ==
    IF s = <<>> THEN <<>>
    ELSE LET i == IndexOf(s, d)
         IN  IF i = 0 THEN <<s>>
             ELSE <<SubSeq(s, 1, i - 1)>> \o getline(SubSeq(s, i + 1, Len(s)), d)

\* TodoManager::trimString
RECURSIVE DropLeading(_)
DropLeading(s) ==
    IF s # <<>> /\ Head(s) \in TrimSet THEN DropLeading(Tail(s)) ELSE s

RECURSIVE DropTrailing(_)
DropTrailing(s) ==
    IF s # <<>> /\ s[Len(s)] \in TrimSet
    THEN DropTrailing(SubSeq(s, 1, Len(s) - 1)) ELSE s

trimString(s) == DropTrailing(DropLeading(s))

isDescriptionEmpty(s) == trimString(s) = <<>>

---------------------------------------------------------------------------
(* Task *)

Pad2(n) == <<Digits[(n \div 10) + 1], Digits[(n % 10) + 1]>>

\* Task::getCurrentTimestamp: std::put_time(&tm, "%Y-%m-%d %H:%M:%S") of the
\* local time. The wall clock of the model starts at the instant of the
\* README's example record, 2025-07-17 10:30:00, and counts seconds.
getCurrentTimestamp(now) ==
    LET t == (10 * 3600) + (30 * 60) + now
    IN  <<"2", "0", "2", "5", "-", "0", "7", "-", "1", "7", " ">>
        \o Pad2((t \div 3600) % 24) \o <<":">>
        \o Pad2((t \div 60) % 60) \o <<":">>
        \o Pad2(t % 60)

\* Task::Task(taskId, desc)
NewTask(taskId, desc, now) ==
    [id |-> taskId, description |-> desc, isCompleted |-> FALSE,
     createdAt |-> getCurrentTimestamp(now), completedAt |-> <<>>]

\* Task::markComplete
markComplete(t, now) ==
    [t EXCEPT !.isCompleted = TRUE, !.completedAt = getCurrentTimestamp(now)]

\* toFileString that writes no separator before an empty completedAt.
toFileStringShort(t) ==
    to_string(t.id) \o <<"|">> \o t.description \o <<"|">>
    \o <<IF t.isCompleted THEN "1" ELSE "0">> \o <<"|">>
    \o t.createdAt
    \o (IF t.completedAt = <<>> THEN <<>> ELSE <<"|">> \o t.completedAt)

\* Task::toFileString
toFileString(t) ==
    to_string(t.id) \o <<"|">> \o t.description \o <<"|">>
    \o <<IF t.isCompleted THEN "1" ELSE "0">> \o <<"|">>
    \o t.createdAt \o <<"|">> \o t.completedAt

\* Task::fromFileString. The std::unique_ptr<Task> it returns is a sequence:
\* empty for nullptr, one task otherwise.
fromFileString(ln) ==
    LET parts == getline(ln, "|")
    IN  IF Len(parts) < 4 THEN <<>>
        ELSE LET n == stoi(parts[1])
             IN  IF ~n.ok THEN <<>>
                 ELSE << [id |-> n.val,
                          description |-> parts[2],
                          isCompleted |-> (parts[3] = <<"1">>),
                          createdAt |-> parts[4],
                          completedAt |-> IF Len(parts) > 4 THEN parts[5]
                                          ELSE <<>>] >>

---------------------------------------------------------------------------
(* TodoStorage *)

NoFile == [exists |-> FALSE, content |-> <<>>]

\* The loop of TodoStorage::loadTasks over the lines std::getline yields.
RECURSIVE DecodeLines(_)
DecodeLines(lines) ==
    IF lines = <<>> THEN <<>>
    ELSE (IF Head(lines) # <<>> THEN fromFileString(Head(lines)) ELSE <<>>)
         \o DecodeLines(Tail(lines))

\* TodoStorage::loadTasks
loadTasks(f) ==
    IF ~f.exists THEN <<>> ELSE DecodeLines(getline(f.content, "\n"))

\* What the loop of TodoStorage::saveTasks writes: each task's line and
\* std::endl.
RECURSIVE FileImage(_)
FileImage(ts) ==
    IF ts = <<>> THEN <<>>
    ELSE toFileString(Head(ts)) \o <<"\n">> \o FileImage(Tail(ts))

\* TodoStorage::saveTasks when the file opens: std::ofstream truncates it.
saveTasks(ts) == [exists |-> TRUE, content |-> FileImage(ts)]

---------------------------------------------------------------------------
(* TodoManager *)

Procs == {1, 2}

Max(a, b) == IF a >= b THEN a ELSE b

\* TodoManager::generateNextId. maxId + 1 overflows an int only when a task
\* holds INT_MAX as its id; the ids of the model stay far below it.
RECURSIVE MaxIdFrom(_, _)
MaxIdFrom(maxId, ts) ==
    IF ts = <<>> THEN maxId ELSE MaxIdFrom(Max(maxId, Head(ts).id), Tail(ts))

generateNextId(ts) == MaxIdFrom(0, ts) + 1

\* Position of the first task with the id (std::find_if), 0 for end().
RECURSIVE FindIf(_, _)
FindIf(ts, taskId) ==
    IF ts = <<>> THEN 0
    ELSE IF Head(ts).id = taskId THEN 1
    ELSE LET r == FindIf(Tail(ts), taskId) IN IF r = 0 THEN 0 ELSE r + 1

\* TodoManager::findTaskById
findTaskById(ts, taskId) == FindIf(ts, taskId)

\* tasks.erase(it)
Erase(ts, i) == SubSeq(ts, 1, i - 1) \o SubSeq(ts, i + 1, Len(ts))

\* What is recorded of a handler call: the command and its argument, what the
\* handler reported, how many times it called saveTasks, and what the call
\* before it on the same manager reported.
NoLast ==
    [op |-> "none", id |-> 0, desc |-> <<>>, result |-> "none",
     saveCalls |-> 0, prev |-> "none"]

Command(p, name, taskId, description) ==
    [op |-> name, id |-> taskId, desc |-> description, result |-> "none",
     saveCalls |-> 0, prev |-> last[p].result]

\* The descriptions a user passes to `add` (buildDescriptionFromArgs joins
\* the arguments; a quoted argument may hold any character).
Descriptions ==
    { <<"a">>,
      <<" ", "b", " ">>,
      <<" ">>,
      <<"c", "|", "1">>,
      <<"c", "|", "d">>,
      <<"a", "\n", "-", "1", "|", "b">> }

\* The ids a user passes to `complete` and `remove`.
TaskIds == -1 .. (MaxTasks + 1)

\* The outcome of a handler's storage->saveTasks(tasks) call by process p.
Saved(p, ts, cmd) ==
    IF writable
    THEN /\ file' = saveTasks(ts)
         /\ stale' = [q \in Procs |-> IF q = p THEN stale[q] ELSE TRUE]
         /\ last' = [last EXCEPT ![p] =
                        [cmd EXCEPT !.result = "ok", !.saveCalls = 1]]
    ELSE /\ UNCHANGED <<file, stale>>
         /\ last' = [last EXCEPT ![p] =
                        [cmd EXCEPT !.result = "SaveFailed", !.saveCalls = 1]]

\* A handler that returns before it changes anything.
Rejected(p, cmd, why) ==
    /\ last' = [last EXCEPT ![p] = [cmd EXCEPT !.result = why]]
    /\ UNCHANGED <<file, stale, tasks>>

\* TodoCLI::TodoCLI: a new process constructs its TodoManager, which loads
\* the list. A process slot is free before its first run and once the
\* process in it has run its command.
Invoke(p) ==
    /\ pc[p] = "off" \/ nops[p] >= 1
    /\ pc' = [pc EXCEPT ![p] = "run"]
    /\ nops' = [nops EXCEPT ![p] = 0]
    /\ tasks' = [tasks EXCEPT ![p] = loadTasks(file)]
    /\ last' = [last EXCEPT ![p] = NoLast]
    /\ stale' = [stale EXCEPT ![p] = FALSE]
    /\ UNCHANGED <<file, writable, clock, line, task, back, phase>>

\* addTask that takes the new task out of the list again when the save fails.
addTaskRollsBack(p, description, k) ==
    /\ pc[p] = "run" /\ nops[p] < k
    /\ nops' = [nops EXCEPT ![p] = @ + 1]
    /\ LET cmd == Command(p, "add", 0, description)
       IN  IF isDescriptionEmpty(description)
           THEN Rejected(p, cmd, "EmptyDescription")
           ELSE /\ Len(tasks[p]) < MaxTasks
                /\ LET taskId == generateNextId(tasks[p])
                       newTask == NewTask(taskId, trimString(description), clock)
                       ts == Append(tasks[p], newTask)
                   IN  /\ tasks' = [tasks EXCEPT ![p] = IF writable THEN ts ELSE @]
                       /\ Saved(p, ts, [cmd EXCEPT !.id = taskId])
    /\ UNCHANGED <<writable, clock, pc, line, task, back, phase>>

\* TodoManager::addTask; k is the number of handler calls one manager takes.
addTask(p, description, k) ==
    /\ pc[p] = "run" /\ nops[p] < k
    /\ nops' = [nops EXCEPT ![p] = @ + 1]
    /\ LET cmd == Command(p, "add", 0, description)
       IN  IF isDescriptionEmpty(description)
           THEN Rejected(p, cmd, "EmptyDescription")
           ELSE /\ Len(tasks[p]) < MaxTasks
                /\ LET taskId == generateNextId(tasks[p])
                       newTask == NewTask(taskId, trimString(description), clock)
                       ts == Append(tasks[p], newTask)
                   IN  /\ tasks' = [tasks EXCEPT ![p] = ts]
                       /\ Saved(p, ts, [cmd EXCEPT !.id = taskId])
    /\ UNCHANGED <<writable, clock, pc, line, task, back, phase>>

\* TodoManager::listTasks
listTasks(p, k) ==
    /\ pc[p] = "run" /\ nops[p] < k
    /\ nops' = [nops EXCEPT ![p] = @ + 1]
    /\ last' = [last EXCEPT ![p] = [Command(p, "list", 0, <<>>) EXCEPT !.result = "ok"]]
    /\ UNCHANGED <<file, writable, clock, pc, tasks, stale, line, task, back, phase>>

\* completeTask without its check of getIsCompleted.
completeTaskAgain(p, taskId, k) ==
    /\ pc[p] = "run" /\ nops[p] < k
    /\ nops' = [nops EXCEPT ![p] = @ + 1]
    /\ LET cmd == Command(p, "complete", taskId, <<>>)
           i == findTaskById(tasks[p], taskId)
       IN  IF i = 0 THEN Rejected(p, cmd, "NotFound")
           ELSE LET ts == [tasks[p] EXCEPT ![i] = markComplete(@, clock)]
                IN  /\ tasks' = [tasks EXCEPT ![p] = ts]
                    /\ Saved(p, ts, cmd)
    /\ UNCHANGED <<writable, clock, pc, line, task, back, phase>>

\* TodoManager::completeTask
completeTask(p, taskId, k) ==
    /\ pc[p] = "run" /\ nops[p] < k
    /\ nops' = [nops EXCEPT ![p] = @ + 1]
    /\ LET cmd == Command(p, "complete", taskId, <<>>)
           i == findTaskById(tasks[p], taskId)
       IN  IF i = 0 THEN Rejected(p, cmd, "NotFound")
           ELSE IF tasks[p][i].isCompleted THEN Rejected(p, cmd, "AlreadyCompleted")
           ELSE LET ts == [tasks[p] EXCEPT ![i] = markComplete(@, clock)]
                IN  /\ tasks' = [tasks EXCEPT ![p] = ts]
                    /\ Saved(p, ts, cmd)
    /\ UNCHANGED <<writable, clock, pc, line, task, back, phase>>

\* TodoManager::removeTask
removeTask(p, taskId, k) ==
    /\ pc[p] = "run" /\ nops[p] < k
    /\ nops' = [nops EXCEPT ![p] = @ + 1]
    /\ LET cmd == Command(p, "remove", taskId, <<>>)
           i == FindIf(tasks[p], taskId)
       IN  IF i = 0 THEN Rejected(p, cmd, "NotFound")
           ELSE LET ts == Erase(tasks[p], i)
                IN  /\ tasks' = [tasks EXCEPT ![p] = ts]
                    /\ Saved(p, ts, cmd)
    /\ UNCHANGED <<writable, clock, pc, line, task, back, phase>>

---------------------------------------------------------------------------
(* Environment *)

\* A second passes on the wall clock.
Tick ==
    /\ clock < MaxClock
    /\ clock' = clock + 1
    /\ UNCHANGED <<file, writable, pc, nops, tasks, last, stale, line, task, back, phase>>

\* The permissions of todos.txt (or of its directory) change, so that
\* std::ofstream's open succeeds or fails from now on.
SetWritable ==
    /\ writable' = ~writable
    /\ UNCHANGED <<file, clock, pc, nops, tasks, last, stale, line, task, back, phase>>

---------------------------------------------------------------------------
(* Specifications *)

Init ==
    /\ file = NoFile
    /\ writable = TRUE
    /\ clock = 0
    /\ pc = [p \in Procs |-> "off"]
    /\ nops = [p \in Procs |-> 0]
    /\ tasks = [p \in Procs |-> <<>>]
    /\ last = [p \in Procs |-> NoLast]
    /\ stale = [p \in Procs |-> FALSE]
    /\ line = <<>>
    /\ task = <<>>
    /\ back = <<>>
    /\ phase = "idle"

\* One process at a time, each running one command, as main() does.
Next ==
    \/ Invoke(1)
    \/ \E d \in Descriptions : addTask(1, d, 1)
    \/ listTasks(1, 1)
    \/ \E i \in TaskIds : completeTask(1, i, 1)
    \/ \E i \in TaskIds : removeTask(1, i, 1)
    \/ Tick
    \/ SetWritable

Spec == Init /\ [][Next]_vars

\* Lists an earlier run of the program leaves in todos.txt: none, one open
\* task, a completed task followed by an open one.
SavedLists ==
    { <<>>,
      <<NewTask(1, <<"b">>, 0)>>,
      <<markComplete(NewTask(1, <<"b">>, 0), 0), NewTask(2, <<"a">>, 0)>> }

InitMgr ==
    /\ file \in {NoFile} \cup {saveTasks(ts) : ts \in SavedLists}
    /\ writable = TRUE
    /\ clock = 0
    /\ pc = [p \in Procs |-> "off"]
    /\ nops = [p \in Procs |-> 0]
    /\ tasks = [p \in Procs |-> <<>>]
    /\ last = [p \in Procs |-> NoLast]
    /\ stale = [p \in Procs |-> FALSE]
    /\ line = <<>>
    /\ task = <<>>
    /\ back = <<>>
    /\ phase = "idle"

\* TodoManager::TodoManager, once in the life of the process.
Construct(p) == pc[p] = "off" /\ Invoke(p)

\* The life of one manager that takes up to MaxOps handler calls, as a
\* caller of the TodoManager class may make them.
NextMgr ==
    \/ Construct(1)
    \/ \E d \in Descriptions : addTask(1, d, MaxOps)
    \/ listTasks(1, MaxOps)
    \/ \E i \in TaskIds : completeTask(1, i, MaxOps)
    \/ \E i \in TaskIds : removeTask(1, i, MaxOps)
    \/ Tick
    \/ SetWritable

SpecMgr == InitMgr /\ [][NextMgr]_vars

\* Two invocations of the program on the same todos.txt, each running `add`
\* once; the file is read in the constructor and written in the handler, and
\* nothing orders the steps of the two processes.
NextRace ==
    \/ \E p \in Procs : Construct(p)
    \/ \E p \in Procs : \E d \in Descriptions : addTask(p, d, 1)
    \/ Tick

SpecRace == InitMgr /\ [][NextRace]_vars

---------------------------------------------------------------------------
(* The line format on its own: Task::fromFileString and Task::toFileString
   applied to tasks drawn from a bounded set and to every line of up to
   MaxFields fields drawn from FieldTexts. *)

\* Field texts: empty, numerals plain and padded, signed, followed by other
\* characters, and text.
FieldTexts ==
    { <<>>, <<"1">>, <<"0">>, <<"-", "1">>, <<" ", "1">>, <<"0", "1">>,
      <<"1", "x">>, <<"t">> }

\* The fields joined by '|'.
RECURSIVE Join(_)
Join(fs) ==
    IF fs = <<>> THEN <<>>
    ELSE IF Len(fs) = 1 THEN fs[1]
    ELSE fs[1] \o <<"|">> \o Join(Tail(fs))

\* Tasks as any caller of the Task class may hold them.
Tasks ==
    [id : {-1, 0, 1, 12},
     description : {<<>>, <<"t">>, <<"a", "\n", "b">>, <<"c", "|", "d">>},
     isCompleted : BOOLEAN,
     createdAt : {<<>>, getCurrentTimestamp(0)},
     completedAt : {<<>>, getCurrentTimestamp(1)}]

InitCodec ==
    /\ file = NoFile
    /\ writable = TRUE
    /\ clock = 0
    /\ pc = [p \in Procs |-> "off"]
    /\ nops = [p \in Procs |-> 0]
    /\ tasks = [p \in Procs |-> <<>>]
    /\ last = [p \in Procs |-> NoLast]
    /\ stale = [p \in Procs |-> FALSE]
    /\ back = <<>>
    /\ \/ /\ phase = "line" /\ task = <<>>
          /\ \E n \in 1..MaxFields :
                 \E fs \in [1..n -> FieldTexts] : line = Join(fs)
       \/ phase = "task" /\ line = <<>> /\ task \in {<<t>> : t \in Tasks}

\* Task::fromFileString(line)
DecodeLine ==
    /\ phase = "line"
    /\ task' = fromFileString(line)
    /\ phase' = "decoded"
    /\ UNCHANGED <<file, writable, clock, pc, nops, tasks, last, stale, line, back>>

\* toFileString() of the task fromFileString returned
EncodeBack ==
    /\ phase = "decoded" /\ task # <<>>
    /\ back' = toFileString(task[1])
    /\ phase' = "reencoded"
    /\ UNCHANGED <<file, writable, clock, pc, nops, tasks, last, stale, line, task>>

\* task.toFileString()
EncodeTask ==
    /\ phase = "task"
    /\ line' = toFileString(task[1])
    /\ phase' = "encoded"
    /\ UNCHANGED <<file, writable, clock, pc, nops, tasks, last, stale, task, back>>

\* Task::fromFileString of the line toFileString returned
DecodeBack ==
    /\ phase = "encoded"
    /\ back' = fromFileString(line)
    /\ phase' = "redecoded"
    /\ UNCHANGED <<file, writable, clock, pc, nops, tasks, last, stale, line, task>>

NextCodec == DecodeLine \/ EncodeBack \/ EncodeTask \/ DecodeBack

SpecCodec == InitCodec /\ [][NextCodec]_vars

---------------------------------------------------------------------------
(* TodoStorage::loadTasks on its own: files of up to MaxLines lines. *)

\* Lines of a todos.txt: empty, complete records with and without the fifth
\* field, too few fields, an empty fourth field, and id fields that are no
\* numeral, a numeral followed by text, a numeral after a blank.
FileLines ==
    { <<>>,
      <<"1", "|", "a", "|", "0", "|", "t">>,
      <<"2", "|", "b", "|", "1", "|", "t", "|", "u">>,
      <<"3", "|", "a", "|", "0">>,
      <<"4", "|", "a", "|", "0", "|">>,
      <<"x", "|", "a", "|", "0", "|", "t">>,
      <<"7", "z", "|", "a", "|", "0", "|", "t">>,
      <<" ", "5", "|", "a", "|", "0", "|", "t">> }

\* The lines, each ended by a line break.
RECURSIVE Unlines(_)
Unlines(ls) ==
    IF ls = <<>> THEN <<>> ELSE Head(ls) \o <<"\n">> \o Unlines(Tail(ls))

\* File contents of up to MaxLines lines; the last line may lack its break.
FileContents ==
    UNION { {Unlines(ls) : ls \in [1..n -> FileLines]} \cup
            {Unlines(SubSeq(ls, 1, n - 1)) \o ls[n] : ls \in [1..n -> FileLines]}
            : n \in 1..MaxLines }

InitLoad ==
    /\ file \in {NoFile} \cup {[exists |-> TRUE, content |-> c] : c \in FileContents}
    /\ writable = TRUE
    /\ clock = 0
    /\ pc = [p \in Procs |-> "off"]
    /\ nops = [p \in Procs |-> 0]
    /\ tasks = [p \in Procs |-> <<>>]
    /\ last = [p \in Procs |-> NoLast]
    /\ stale = [p \in Procs |-> FALSE]
    /\ line = <<>>
    /\ task = <<>>
    /\ back = <<>>
    /\ phase = "idle"

NextLoad == Construct(1)

SpecLoad == InitLoad /\ [][NextLoad]_vars

---------------------------------------------------------------------------
(* Vocabulary of the claims *)

\* This step is a handler call on process p's manager.
OpStep(p) == nops'[p] = nops[p] + 1

IdsOf(ts) == {ts[i].id : i \in 1..Len(ts)}

\* The largest id in the list, 0 for the empty list.
LargestId(ts) ==
    IF ts = <<>> THEN 0
    ELSE CHOOSE m \in IdsOf(ts) : \A n \in IdsOf(ts) : m >= n

Mutating == {"add", "complete", "remove"}

Rejections == {"EmptyDescription", "NotFound", "AlreadyCompleted"}

\* The first task with the id, as findTaskById finds it.
TaskWithId(ts, taskId) == ts[FindIf(ts, taskId)]

\* Every piece of s between occurrences of d, an empty last one included.
RECURSIVE SplitAll(_, _)
SplitAll(s, d) ==
    IF \A k \in 1..Len(s) : s[k] # d THEN <<s>>
    ELSE LET k == CHOOSE j \in 1..Len(s) :
                      s[j] = d /\ \A h \in 1..(j - 1) : s[h] # d
         IN  <<SubSeq(s, 1, k - 1)>> \o SplitAll(SubSeq(s, k + 1, Len(s)), d)

AllDigits(s) == s # <<>> /\ \A k \in 1..Len(s) : IsDigit(s[k])

\* A decimal integer: digits, after an optional '-'.
IsInteger(s) == AllDigits(s) \/ (s # <<>> /\ s[1] = "-" /\ AllDigits(Tail(s)))

\* The numeral std::to_string prints: no leading zero, no "-0".
IsCanonicalNumeral(s) ==
    /\ IsInteger(s)
    /\ LET ds == IF s[1] = "-" THEN Tail(s) ELSE s
       IN  IF ds[1] = "0" THEN s = <<"0">> ELSE Len(ds) <= 9

IntegerValue(s) ==
    IF s[1] = "-" THEN DigitsValue(Tail(s), TRUE) ELSE DigitsValue(s, FALSE)

\* A well-formed line as the specification words it: at least 4
\* '|'-separated fields and an integer id field.
WellFormed(ln) ==
    LET f == SplitAll(ln, "|") IN Len(f) >= 4 /\ IsInteger(f[1])

\* The task a well-formed line stands for, field by field.
RecordOf(ln) ==
    LET f == SplitAll(ln, "|")
    IN  [id |-> IntegerValue(f[1]), description |-> f[2],
         isCompleted |-> (f[3] = <<"1">>), createdAt |-> f[4],
         completedAt |-> IF Len(f) >= 5 THEN f[5] ELSE <<>>]

\* A line as toFileString writes it: five fields, the id as std::to_string
\* prints it, the completed field "0" or "1".
IsCanonicalLine(ln) ==
    LET f == SplitAll(ln, "|")
    IN  Len(f) = 5 /\ IsCanonicalNumeral(f[1]) /\ f[3] \in {<<"0">>, <<"1">>}

HasNoPipe(s) == \A k \in 1..Len(s) : s[k] # "|"

RECURSIVE RecordsOf(_)
RecordsOf(lines) ==
    IF lines = <<>> THEN <<>>
    ELSE (IF Head(lines) # <<>> /\ WellFormed(Head(lines))
          THEN <<RecordOf(Head(lines))>> ELSE <<>>)
         \o RecordsOf(Tail(lines))

\* Both processes ran `add` and both reported success.
BothAdded ==
    \A p \in Procs :
        pc[p] = "run" /\ nops[p] = 1 /\ last[p].op = "add" /\ last[p].result = "ok"

\* The task process p's addTask appended.
Added(p) == tasks[p][Len(tasks[p])]

---------------------------------------------------------------------------
(* Claims *)

\* C1: every successful addTask appends a task whose id is 1 + the largest
\* id in the list just before the call (1 when the list is empty).
C1_NextIdIsLargestPlusOne ==
    [][\A p \in Procs :
        (OpStep(p) /\ last'[p].op = "add" /\ last'[p].result = "ok")
        => /\ Len(tasks'[p]) = Len(tasks[p]) + 1
           /\ SubSeq(tasks'[p], 1, Len(tasks[p])) = tasks[p]
           /\ tasks'[p][Len(tasks'[p])].id = 1 + LargestId(tasks[p])]_vars

\* C2: starting from a missing file, after any sequence of invocations of
\* add / complete / remove, every task in the list has a positive id and no
\* two tasks in the list share an id, whatever descriptions were passed.
C2_IdsPositiveAndUnique ==
    \A p \in Procs :
        pc[p] = "run" =>
            \A i \in 1..Len(tasks[p]) :
                /\ tasks[p][i].id > 0
                /\ \A j \in 1..Len(tasks[p]) :
                       i # j => tasks[p][i].id # tasks[p][j].id

\* C3: an operation rejected by a business rule (add with a description that
\* is empty after trimming; complete or remove with an id not in the list;
\* complete on a task already completed) reports that rule's error, leaves
\* the in-memory list and the backing file exactly as they were (so the
\* completion timestamp too), and calls saveTasks not once.
C3_RejectionChangesNothing ==
    [][\A p \in Procs :
        OpStep(p) =>
            LET c == last'[p]
                i == FindIf(tasks[p], c.id)
                expected ==
                    IF c.op = "add" /\ trimString(c.desc) = <<>>
                        THEN "EmptyDescription"
                    ELSE IF c.op \in {"complete", "remove"} /\ i = 0
                        THEN "NotFound"
                    ELSE IF c.op = "complete" /\ tasks[p][i].isCompleted
                        THEN "AlreadyCompleted"
                    ELSE "none"
            IN  (expected # "none" \/ c.result \in Rejections)
                => /\ c.result = expected
                   /\ tasks'[p] = tasks[p]
                   /\ file' = file
                   /\ c.saveCalls = 0]_vars

\* C3's case: a second `complete` of a completed task was rejected, at a
\* later second than the one its completion timestamp records.
C3_Witness ==
    /\ last[1].result = "AlreadyCompleted" /\ last[1].prev = "ok"
    /\ clock = 1
    /\ \E i \in 1..Len(tasks[1]) :
           /\ last[1].id = tasks[1][i].id
           /\ tasks[1][i].isCompleted
           /\ tasks[1][i].completedAt = getCurrentTimestamp(0)

\* C4: after any successful add, complete or remove, a manager constructed
\* on the same file holds a list equal to the in-memory list of the manager
\* that performed the operation.
C4_ReloadEqualsMemory ==
    \A p \in Procs :
        (/\ pc[p] = "run" /\ nops[p] >= 1 /\ ~stale[p]
         /\ last[p].op \in Mutating /\ last[p].result = "ok")
        => loadTasks(file) = tasks[p]

\* C5: in every reachable state of the manager, for every task in its list,
\* the completion timestamp is non-empty iff the completion flag is true.
C5_CompletedAtIffCompleted ==
    \A p \in Procs :
        pc[p] = "run" =>
            \A i \in 1..Len(tasks[p]) :
                (tasks[p][i].completedAt # <<>>) <=> tasks[p][i].isCompleted

\* C6: the completion flag of a task changes only from false to true and only
\* in a completeTask on its id; once true it stays true while the task is in
\* the list, across handler calls and across the reload of the next
\* invocation. The reload is compared only when the file holds what the
\* previous manager's list was saved as, and a completeTask whose save failed
\* counts as one that may set the flag.
C6_FlagMonotonic ==
    [][\A p \in Procs :
        ((OpStep(p) \/ (file.exists /\ file.content = FileImage(tasks[p]))))
        => \A i \in IdsOf(tasks[p]) \cap IdsOf(tasks'[p]) :
              LET before == TaskWithId(tasks[p], i).isCompleted
                  after == TaskWithId(tasks'[p], i).isCompleted
              IN  /\ before => after
                  /\ (~before /\ after)
                     => /\ OpStep(p)
                        /\ last'[p].op = "complete"
                        /\ last'[p].id = i
                        /\ last'[p].result \in {"ok", "SaveFailed"}]_vars

\* C9: when the file cannot be opened for writing, add, complete and remove
\* (when no business rule rejects them) report failure, leave the file
\* unchanged and keep the in-memory mutation; and every handler call whose
\* save succeeds, also one that follows a failed save on the same manager,
\* leaves in the file exactly the lines of the whole in-memory list.
C9_SaveFailureKeepsMutation ==
    [][\A p \in Procs :
        (OpStep(p) /\ last'[p].op \in Mutating /\ last'[p].result \notin Rejections)
        => LET c == last'[p]
               i == FindIf(tasks[p], c.id)
               mutated ==
                   IF c.op = "add"
                       THEN Append(tasks[p],
                                   NewTask(generateNextId(tasks[p]),
                                           trimString(c.desc), clock))
                   ELSE IF c.op = "complete"
                       THEN [tasks[p] EXCEPT ![i] = markComplete(@, clock)]
                   ELSE Erase(tasks[p], i)
           IN  /\ tasks'[p] = mutated
               /\ c.saveCalls = 1
               /\ IF writable
                  THEN /\ c.result = "ok"
                       /\ file'.exists
                       /\ file'.content = FileImage(tasks'[p])
                  ELSE /\ c.result = "SaveFailed"
                       /\ file' = file]_vars

\* C9's case: a handler call has just saved the list of a manager whose
\* previous call failed to save, and the list still holds that call's task.
C9_Witness ==
    /\ last[1].result = "ok" /\ last[1].prev = "SaveFailed"
    /\ last[1].op = "complete"
    /\ Len(tasks[1]) = 2 /\ tasks[1][2].description = <<"b">>
    /\ file = saveTasks(tasks[1])

\* C7: for every well-formed line (at least 4 '|'-separated fields, an integer
\* id field, the 5th field present or absent) toFileString of the task
\* fromFileString yields equals the line character for character; and for
\* every task, fromFileString(toFileString(task)) has the same five fields.
C7_RoundTrip ==
    /\ (phase = "reencoded" /\ WellFormed(line)) => back = line
    /\ phase = "redecoded" => back = task

\* C7 as amended: the line round trip holds for the lines toFileString
\* writes (five fields, the fifth possibly empty; the id field the numeral
\* std::to_string prints; the completed field "0" or "1"), and the task
\* round trip for the tasks whose description and timestamps hold no '|'.
C7_CanonicalRoundTrip ==
    /\ (phase = "decoded" /\ IsCanonicalLine(line)) => task # <<>>
    /\ (phase = "reencoded" /\ IsCanonicalLine(line)) => back = line
    /\ (/\ phase = "redecoded"
        /\ HasNoPipe(task[1].description)
        /\ HasNoPipe(task[1].createdAt)
        /\ HasNoPipe(task[1].completedAt))
       => back = task

\* C7's case: a line with an empty fifth field was decoded and encoded again.
C7_Witness ==
    /\ phase = "reencoded"
    /\ line = <<"1", "|", "t", "|", "0", "|", "t", "|">>
    /\ task[1].completedAt = <<>>
    /\ back = line

\* C8: loadTasks returns, in file order, exactly one task for each non-empty
\* line that has at least 4 '|'-separated fields and whose id field is a
\* valid integer, and skips every other line; the empty list when the file
\* cannot be opened.
C8_LoadKeepsWellFormedLines ==
    pc[1] = "run" =>
        tasks[1] = IF file.exists THEN RecordsOf(SplitAll(file.content, "\n"))
                   ELSE <<>>

\* C8's case: of a line with a non-numeric id and a complete record after it,
\* exactly the record was loaded.
C8_Witness ==
    /\ pc[1] = "run"
    /\ file.content = Unlines(<< <<"x", "|", "a", "|", "0", "|", "t">>,
                                 <<"1", "|", "a", "|", "0", "|", "t">> >>)
    /\ Len(tasks[1]) = 1 /\ tasks[1][1].id = 1

\* C10, the invocations one after the other (one process saved before the
\* other loaded): the two added tasks have distinct ids, and the file holds
\* a task under each of the two ids.
C10_SequentialKeepsBoth ==
    (BothAdded /\ stale[1] # stale[2])
    => /\ Added(1).id # Added(2).id
       /\ {Added(1).id, Added(2).id} \subseteq IdsOf(loadTasks(file))

\* C10, the lost update: both processes loaded before either saved, both
\* reported success, and the file holds the task of one of them only.
C10_Witness ==
    /\ BothAdded /\ stale[1] /\ stale[2]
    /\ last[1].desc = <<"a">> /\ last[2].desc = <<" ", "b", " ">>
    /\ LET f == loadTasks(file)
       IN  /\ Len(f) = 1
           /\ f[1] \in {Added(1), Added(2)}
           /\ Added(1) # Added(2)

===========================================================================
